---- MODULE Spec2Model ----
(***************************************************************************)
(* ROI construction of ms_feature_validation/lcms.py: _RoiProcessor (add,  *)
(* extend, append_to_roi, flag_as_completed), _match_mz, tmp_roi_to_roi    *)
(* and the driver loop of make_roi.                                        *)
(*                                                                         *)
(* float64 values (m/z, intensity, tolerance) are exact rationals <<n, d>> *)
(* with d > 0 in lowest terms; NaN is <<0, 0>>.  m/z values of a spectrum  *)
(* lie on the grid 1..MaxMz, in units of the tolerance grid.  numpy arrays *)
(* are sequences; index VALUES (match_index, roi_index, scan numbers) are  *)
(* 0-based as in the source, and At(a, i) reads a[i] of the source.        *)
(***************************************************************************)
EXTENDS Integers, Sequences, FiniteSets

\* ---- bounds of the model
MaxMz == 4
MaxPeaks == 3
MaxInt == 2
NScans == 3
MaxTargets == 2
MaxMissing == 1
MaxStart == 1
MaxRunPeaks == 4
MaxMinLength == 2
\* the configuration that is the same in every run
Tol == 1
MinIntensity == 2

VARIABLES
    \* _RoiProcessor attributes
    mz_mean, roi_index, n_missing, max_intensity, length, index,
    temp_roi_dict, roi,
    min_intensity, max_missing, min_length, tolerance, multiple_match,
    \* make_roi arguments and locals (targeted_mz is <<>> for None, and
    \* mz_seed_ndim is len(mz_seed.shape) of the seed array)
    targeted_mz, mz_seed_ndim, targeted, start, end, k_scan, rt, pc, err,
    \* the spectra make_roi has read in its loop, and the values _match_mz
    \* returned to the last add
    msexp, match

cfgvars == <<min_intensity, max_missing, min_length, tolerance,
             multiple_match, targeted_mz, mz_seed_ndim, targeted, start, end>>

procvars == <<mz_mean, roi_index, n_missing, max_intensity, length, index,
              temp_roi_dict, roi>>

vars == <<mz_mean, roi_index, n_missing, max_intensity, length, index,
          temp_roi_dict, roi, min_intensity, max_missing, min_length,
          tolerance, multiple_match, targeted_mz, mz_seed_ndim, targeted,
          start, end, k_scan, rt, pc, err, msexp, match>>

\* ---- float64 arithmetic, exact
Abs(x) == IF x < 0 THEN -x ELSE x

RECURSIVE GCD(_, _)
GCD(a, b) == IF b = 0 THEN a ELSE GCD(b, a % b)

Rat(n, d) ==
    LET g == GCD(Abs(n), d) IN <<n \div g, d \div g>>

RatInt(n) == <<n, 1>>

NaN == <<0, 0>>

RAdd(a, b) == Rat(a[1] * b[2] + b[1] * a[2], a[2] * b[2])

RSub(a, b) == Rat(a[1] * b[2] - b[1] * a[2], a[2] * b[2])

RMulInt(a, k) == Rat(a[1] * k, a[2])

RDivInt(a, k) == Rat(a[1], a[2] * k)

RLt(a, b) == a[1] * b[2] < b[1] * a[2]

RLeq(a, b) == a[1] * b[2] <= b[1] * a[2]

RAbs(a) == <<Abs(a[1]), a[2]>>

RMax(a, b) == IF RLt(a, b) THEN b ELSE a

\* ---- numpy helpers
At(a, i) == a[i + 1]

Range(s) == {s[i] : i \in 1..Len(s)}

RECURSIVE RSum(_)
RSum(s) == IF Len(s) = 0 THEN RatInt(0) ELSE RAdd(Head(s), RSum(Tail(s)))

\* np.mean
RMean(s) == RDivInt(RSum(s), Len(s))

RECURSIVE SortedSeq(_)
SortedSeq(S) ==
    IF S = {} THEN <<>>
    ELSE LET m == CHOOSE x \in S : \A y \in S : x <= y
         IN <<m>> \o SortedSeq(S \ {m})

\* a[mask] for a boolean mask: the 1-based positions where mask holds
Where(mask) == SortedSeq({i \in 1..Len(mask) : mask[i]})

\* a[pos] for a sequence of 1-based positions
Take(a, pos) == [j \in 1..Len(pos) |-> a[pos[j]]]

IsSorted(a) == \A i \in 1..(Len(a) - 1) : RLeq(a[i], a[i + 1])

\* np.argsort(keys): every order of the 1-based positions that sorts keys
\* (the default sort kind is not stable, equal keys come in any order)
RECURSIVE ArgSorts(_, _)
ArgSorts(keys, S) ==
    IF S = {} THEN {<<>>}
    ELSE UNION {{<<m>> \o p : p \in ArgSorts(keys, S \ {m})} :
                m \in {x \in S : \A y \in S : RLeq(keys[x], keys[y])}}

\* ---- utils.find_closest: np.searchsorted(x, q), side left
RECURSIVE BSearch(_, _, _, _)
BSearch(x, q, lo, hi) ==
    IF lo >= hi THEN lo
    ELSE LET mid == lo + ((hi - lo) \div 2)
         IN IF RLt(At(x, mid), q) THEN BSearch(x, q, mid + 1, hi)
            ELSE BSearch(x, q, lo, mid)

searchsorted(x, q) == BSearch(x, q, 0, Len(x))

\* index of the element of the sorted x nearest to each xq[k]; -1 on an empty x
find_closest(x, xq) ==
    LET n == Len(x)
        one(q) ==
            LET ind == searchsorted(x, q)
            IN IF ind > 0 /\ ind < n
               THEN IF RLt(RSub(q, At(x, ind - 1)), RSub(At(x, ind), q))
                    THEN ind - 1 ELSE ind
               ELSE IF ind = n THEN n - 1 ELSE ind
    IN [k \in 1..Len(xq) |-> one(xq[k])]

\* ---- _RoiProcessor.__init__: the reduce functions (the defaults)
mz_reduce(s) == RMean(s)

\* faulty variant: the intensities are averaged like the m/z values
sp_reduce_mean(s) == RMean(s)

sp_reduce(s) == RSum(s)

\* faulty variant: the last minimum of the slice
argmin_slice_last(d, first, count) ==
    LET js == {j \in 0..(Len(d) - 1) : first <= j /\ j < first + count}
    IN CHOOSE j \in js :
          /\ \A k \in js : RLeq(At(d, j), At(d, k))
          /\ \A k \in js : (k > j) => RLt(At(d, j), At(d, k))

\* np.argmin(d[index:(index + count)]) + index, the first minimum of the slice
argmin_slice(d, first, count) ==
    LET js == {j \in 0..(Len(d) - 1) : first <= j /\ j < first + count}
    IN CHOOSE j \in js :
          /\ \A k \in js : RLeq(At(d, j), At(d, k))
          /\ \A k \in js : (k < j) => RLt(At(d, j), At(d, k))

\* a[index:(index + count)]
Slice(a, first, count) ==
    LET m == IF first + count > Len(a) THEN Len(a) - first ELSE count
    IN [j \in 1..m |-> At(a, first + j - 1)]

\* no_match_mask[rm_index] = True
set_no_match(no_match_mask, rm_index) ==
    [i \in 1..Len(no_match_mask) |-> no_match_mask[i] \/ (i - 1) \in rm_index]

\* ---- _match_mz, line by line; each step hands its values to the next
\* dmz = np.abs(mz1[closest_index] - mz2)
match_dmz(mz1, mz2, closest_index) ==
    [i \in 1..Len(mz2) |-> RAbs(RSub(At(mz1, closest_index[i]), mz2[i]))]

\* faulty variant: the comparison with the tolerance is strict
match_mask_of_strict(dmz, tol) == [i \in 1..Len(dmz) |-> RLt(dmz[i], tol)]

\* match_mask = (dmz <= tolerance)
match_mask_of(dmz, tol) == [i \in 1..Len(dmz) |-> RLeq(dmz[i], tol)]

\* np.unique(match_index, return_counts=True, return_index=True)
unique_of(all_index) == SortedSeq(Range(all_index))

first_index_of(all_index, unique) ==
    [u \in 1..Len(unique) |->
        (CHOOSE j \in 1..Len(all_index) :
            /\ all_index[j] = unique[u]
            /\ \A k \in 1..(j - 1) : all_index[k] # unique[u]) - 1]

count_index_of(all_index, unique) ==
    [u \in 1..Len(unique) |->
        Cardinality({j \in 1..Len(all_index) : all_index[j] = unique[u]})]

\* closest = np.argmin(dmz[match_mask][index:(index + count)]) + index, for
\* each row of unique (used for the rows with count > 1 only)
\* faulty variant: the first peak of the slice is kept, whatever its distance
closest_of_first(dmz_m, first_index, count_index) ==
    [u \in 1..Len(first_index) |-> first_index[u]]

closest_of(dmz_m, first_index, count_index) ==
    [u \in 1..Len(first_index) |->
        argmin_slice(dmz_m, first_index[u], count_index[u])]

\* rm_index: np.setdiff1d(np.arange(index, index + count), closest) of every
\* row with count > 1
rm_index_of(first_index, count_index, closest) ==
    UNION {{j \in first_index[u]..(first_index[u] + count_index[u] - 1) :
                j # closest[u]} :
           u \in {v \in 1..Len(first_index) : count_index[v] > 1}}

no_match_mask_of(match_mask, rm_index, mode) ==
    IF mode = "closest"
    THEN set_no_match([i \in 1..Len(match_mask) |-> ~match_mask[i]], rm_index)
    ELSE [i \in 1..Len(match_mask) |-> ~match_mask[i]]

\* mz_match and sp_match: the first value, replaced for the rows with count > 1
mz_match_of(mz2_m, first_index, count_index, closest, mode) ==
    [u \in 1..Len(first_index) |->
        IF count_index[u] <= 1 THEN At(mz2_m, first_index[u])
        ELSE IF mode = "closest" THEN At(mz2_m, closest[u])
        ELSE mz_reduce(Slice(mz2_m, first_index[u], count_index[u]))]

sp_match_of(sp2_m, first_index, count_index, closest, mode) ==
    [u \in 1..Len(first_index) |->
        IF count_index[u] <= 1 THEN At(sp2_m, first_index[u])
        ELSE IF mode = "closest" THEN At(sp2_m, closest[u])
        ELSE sp_reduce(Slice(sp2_m, first_index[u], count_index[u]))]

\* lines 1221-1223, and the record of the call (its arguments and masks)
match_result(mz1, mz2, sp2, closest_index, match_mask, unique, mz_match, sp_match, no_match_mask) ==
    [match_index |-> unique,
     mz_match |-> mz_match,
     sp_match |-> sp_match,
     mz_no_match |-> Take(mz2, Where(no_match_mask)),
     sp_no_match |-> Take(sp2, Where(no_match_mask)),
     mz1 |-> mz1, mz2 |-> mz2, sp2 |-> sp2,
     closest_index |-> closest_index,
     match_mask |-> match_mask,
     no_match_mask |-> no_match_mask]

\* lines 1187-1219
match_mz_4(mz1, mz2, sp2, mode, closest_index, match_mask, masked, dmz_m, unique, first_index, count_index, closest) ==
    match_result(mz1, mz2, sp2, closest_index, match_mask, unique,
        mz_match_of(Take(mz2, masked), first_index, count_index, closest, mode),
        sp_match_of(Take(sp2, masked), first_index, count_index, closest, mode),
        no_match_mask_of(match_mask,
                         rm_index_of(first_index, count_index, closest), mode))

\* lines 1178-1185
match_mz_3(mz1, mz2, sp2, mode, closest_index, match_mask, masked, dmz_m, all_index, unique) ==
    match_mz_4(mz1, mz2, sp2, mode, closest_index, match_mask, masked, dmz_m,
               unique, first_index_of(all_index, unique),
               count_index_of(all_index, unique),
               closest_of(dmz_m, first_index_of(all_index, unique),
                          count_index_of(all_index, unique)))

\* lines 1173-1175
match_mz_2(mz1, mz2, sp2, mode, closest_index, dmz, match_mask, masked) ==
    match_mz_3(mz1, mz2, sp2, mode, closest_index, match_mask, masked,
               Take(dmz, masked), Take(closest_index, masked),
               unique_of(Take(closest_index, masked)))

\* lines 1171-1172
match_mz_1(mz1, mz2, sp2, tol, mode, closest_index, dmz) ==
    match_mz_2(mz1, mz2, sp2, mode, closest_index, dmz,
               match_mask_of(dmz, tol), Where(match_mask_of(dmz, tol)))

match_mz(mz1, mz2, sp2, tol, mode) ==
    match_mz_1(mz1, mz2, sp2, tol, mode, find_closest(mz1, mz2),
               match_dmz(mz1, mz2, find_closest(mz1, mz2)))

\* the record of a call that has not happened
NoMatch ==
    [match_index |-> <<>>, mz_match |-> <<>>, sp_match |-> <<>>,
     mz_no_match |-> <<>>, sp_no_match |-> <<>>,
     mz1 |-> <<>>, mz2 |-> <<>>, sp2 |-> <<>>,
     closest_index |-> <<>>, match_mask |-> <<>>, no_match_mask |-> <<>>]

\* ---- TempRoi, make_empty_temp_roi
make_empty_temp_roi == [mz |-> <<>>, sp |-> <<>>, scan |-> <<>>]

\* faulty variant: size = last_scan - first_scan, the last scan is cut off
tmp_roi_to_roi_short(tmp_roi, rt_arr) ==
    LET first_scan == tmp_roi.scan[1]
        size == tmp_roi.scan[Len(tmp_roi.scan)] - first_scan
        fill(vals) == [o \in 1..size |->
            IF \E j \in 1..Len(tmp_roi.scan) :
                  tmp_roi.scan[j] - first_scan = o - 1
            THEN vals[CHOOSE j \in 1..Len(tmp_roi.scan) :
                        tmp_roi.scan[j] - first_scan = o - 1]
            ELSE NaN]
    IN [spint |-> fill(tmp_roi.sp),
        mz |-> fill(tmp_roi.mz),
        rt |-> [o \in 1..size |-> At(rt_arr, first_scan + o - 1)],
        first_scan |-> first_scan]

\* ---- tmp_roi_to_roi: the dense arrays of a finished TempRoi
tmp_roi_to_roi(tmp_roi, rt_arr) ==
    LET first_scan == tmp_roi.scan[1]
        last_scan == tmp_roi.scan[Len(tmp_roi.scan)]
        size == last_scan + 1 - first_scan
        fill(vals) == [o \in 1..size |->
            IF \E j \in 1..Len(tmp_roi.scan) :
                  tmp_roi.scan[j] - first_scan = o - 1
            THEN vals[CHOOSE j \in 1..Len(tmp_roi.scan) :
                        /\ tmp_roi.scan[j] - first_scan = o - 1
                        /\ \A k \in (j + 1)..Len(tmp_roi.scan) :
                              tmp_roi.scan[k] - first_scan # o - 1]
            ELSE NaN]
    IN [spint |-> fill(tmp_roi.sp),
        mz |-> fill(tmp_roi.mz),
        rt |-> [o \in 1..size |-> At(rt_arr, first_scan + o - 1)],
        first_scan |-> first_scan]

\* faulty variant: the old mean and the new sample are weighted alike
updated_mean_halved(mean, len, mzm) == RDivInt(RAdd(mean, mzm), 2)

\* ---- _RoiProcessor.add, the array updates
updated_mean(mean, len, mzm) ==
    RDivInt(RAdd(RMulInt(mean, len), mzm), len + 1)

\* position (1-based) of trace k in match_index
MatchPos(m, k) == CHOOSE j \in 1..Len(m.match_index) : m.match_index[j] = k

IsMatched(m, k) == k \in Range(m.match_index)

add_temp_roi(dict, ids, m, scan_no) ==
    [x \in DOMAIN dict |->
        IF \E k \in Range(m.match_index) : At(ids, k) = x
        THEN LET k == CHOOSE k \in Range(m.match_index) : At(ids, k) = x
                 j == MatchPos(m, k)
             IN [mz |-> Append(dict[x].mz, m.mz_match[j]),
                 sp |-> Append(dict[x].sp, m.sp_match[j]),
                 scan |-> Append(dict[x].scan, scan_no)]
        ELSE dict[x]]

\* faulty variant: the length of every row is incremented
add_length_all(len, m) == [i \in 1..Len(len) |-> len[i] + 1]

add_length(len, m) ==
    [i \in 1..Len(len) |-> IF IsMatched(m, i - 1) THEN len[i] + 1 ELSE len[i]]

\* faulty variant: the count of missing scans is not reset by a match
add_n_missing_noreset(nm, m) ==
    [i \in 1..Len(nm) |-> IF IsMatched(m, i - 1) THEN nm[i] ELSE nm[i] + 1]

\* faulty variant: the count of missing scans is not incremented
add_n_missing_stuck(nm, m) ==
    [i \in 1..Len(nm) |-> IF IsMatched(m, i - 1) THEN 0 ELSE nm[i]]

add_n_missing(nm, m) ==
    [i \in 1..Len(nm) |-> IF IsMatched(m, i - 1) THEN 0 ELSE nm[i] + 1]

add_max_intensity(mi, m) ==
    [i \in 1..Len(mi) |->
        IF IsMatched(m, i - 1)
        THEN RMax(mi[i], m.sp_match[MatchPos(m, i - 1)]) ELSE mi[i]]

add_mz_mean(mean, len, m) ==
    [i \in 1..Len(mean) |->
        IF IsMatched(m, i - 1)
        THEN updated_mean(mean[i], len[i], m.mz_match[MatchPos(m, i - 1)])
        ELSE mean[i]]

\* faulty variant: the mean is updated in targeted mode as well
store_updated_mean_always(mean, len, m, tg) == add_mz_mean(mean, len, m)

\* if not targeted: self.mz_mean[match_index] = updated_mean
store_updated_mean(mean, len, m, tg) ==
    IF tg THEN mean ELSE add_mz_mean(mean, len, m)

\* ---- _RoiProcessor.extend: the values of the new rows
SeqMax(a) == CHOOSE x \in Range(a) : \A y \in Range(a) : y <= x

\* faulty variant: the new identities start at max_index, not max_index + 1
extend_new_indices_from_max(ids, mz) == [j \in 1..Len(mz) |-> (j - 1) + SeqMax(ids)]

extend_new_indices(ids, mz) == [j \in 1..Len(mz) |-> (j - 1) + SeqMax(ids) + 1]

extend_n_missing(mz) == [j \in 1..Len(mz) |-> 0]

\* faulty variant: np.zeros_like instead of np.ones_like
extend_length_zeros(mz) == [i \in 1..Len(mz) |-> 0]

extend_length(mz) == [j \in 1..Len(mz) |-> 1]

extend_max_intensity(mz, sp) == [j \in 1..Len(mz) |-> RatInt(0)]

extend_temp_roi(dict, new_indices, mz, sp, scan_no) ==
    [x \in (DOMAIN dict) \cup Range(new_indices) |->
        IF x \in Range(new_indices)
        THEN LET j == CHOOSE j \in 1..Len(new_indices) :
                        /\ new_indices[j] = x
                        /\ \A k \in (j + 1)..Len(new_indices) :
                              new_indices[k] # x
             IN [mz |-> <<mz[j]>>, sp |-> <<sp[j]>>, scan |-> <<scan_no>>]
        ELSE dict[x]]

\* faulty variant: a row is completed one missing scan too late
is_completed_late(nm, maxm) == [i \in 1..Len(nm) |-> nm[i] > maxm + 1]

\* ---- _RoiProcessor.append_to_roi, the array updates
is_completed(nm, maxm) == [i \in 1..Len(nm) |-> nm[i] > maxm]

\* faulty variant: the intensity threshold is not applied
is_valid_roi_length(len, mi, minlen, minint) ==
    [i \in 1..Len(len) |-> len[i] >= minlen]

is_valid_roi(len, mi, minlen, minint) ==
    [i \in 1..Len(len) |-> len[i] >= minlen /\ RLeq(minint, mi[i])]

\* a[~is_completed]
remove_completed(a, done) == Take(a, Where([i \in 1..Len(a) |-> ~done[i]]))

\* faulty variant: the completed rows are removed instead of reset
reset_completed_remove(a, done, v) ==
    Take(a, Where([i \in 1..Len(a) |-> ~done[i]]))

\* a[is_completed] = v
reset_completed(a, done, v) == [i \in 1..Len(a) |-> IF done[i] THEN v ELSE a[i]]

\* faulty variant: the completed rows keep their identity
renumber_completed_keep(ids, done) == ids

\* roi_index[is_completed] = np.arange(max_roi_ind + 1, ...)
renumber_completed(ids, done) ==
    LET comp == Where(done)
    IN [i \in 1..Len(ids) |->
            IF done[i]
            THEN SeqMax(ids) + (CHOOSE j \in 1..Len(comp) : comp[j] = i)
            ELSE ids[i]]

\* the rois appended for the completed rows, in the order of completed_index
RECURSIVE finished_roi(_, _, _, _, _)
finished_roi(comp, ids, valid, dict, rt_arr) ==
    IF Len(comp) = 0 THEN <<>>
    ELSE (IF valid[Head(comp)]
          THEN <<tmp_roi_to_roi(dict[ids[Head(comp)]], rt_arr)>>
          ELSE <<>>)
         \o finished_roi(Tail(comp), ids, valid, dict, rt_arr)

\* faulty variant: the new rois are put in front of the list
roi_append_front(rois, new) == new \o rois

\* self.roi.append(roi), for the rois of one call in their order
roi_append(rois, new) == rois \o new

\* ---- _RoiProcessor.flag_as_completed
flag_n_missing(nm, maxm) == [i \in 1..Len(nm) |-> maxm + 1]

\* ---- the inputs: spectra in centroid mode, m/z ascending, and target lists
ScanSets == {S \in SUBSET (1..MaxMz) : Cardinality(S) <= MaxPeaks}

Spectrum(S, f) ==
    LET grid == SortedSeq(S)
    IN [mz |-> [i \in 1..Len(grid) |-> RatInt(grid[i])],
        sp |-> [i \in 1..Len(grid) |-> RatInt(f[grid[i]])]]

Spectra == UNION {{Spectrum(S, f) : f \in [S -> 1..MaxInt]} : S \in ScanSets}

TargetLists ==
    UNION {{[i \in 1..n |-> RatInt(t[i])] : t \in [1..n -> 1..MaxMz]} :
           n \in 0..MaxTargets}

\* the number of peaks in the spectra read so far
RECURSIVE PeaksRead(_)
PeaksRead(exp) ==
    IF Len(exp) = 0 THEN 0 ELSE Len(Head(exp).mz) + PeaksRead(Tail(exp))

\* the number of m/z values the processor was given so far: the target list
\* and the peaks of the spectra (the seed of an untargeted run is a spectrum)
GivenMz == Len(targeted_mz) + PeaksRead(msexp)

\* sp.getRT() of the scan with raw index k
getRT(k) == 10 * (k + 1)

\* ---- the arguments of make_roi, before the processor is constructed
Tolerances == {RatInt(0), RatInt(Tol)}

Policies == {"closest", "reduce", "merge"}

Init ==
    /\ tolerance \in Tolerances
    /\ max_missing \in 0..MaxMissing
    /\ min_length \in 1..MaxMinLength
    /\ min_intensity = RatInt(MinIntensity)
    /\ multiple_match \in Policies
    /\ start \in 0..MaxStart
    /\ end \in start..NScans
    /\ targeted \in BOOLEAN
    /\ targeted_mz \in (IF targeted THEN TargetLists ELSE {<<>>})
    /\ mz_seed_ndim \in (IF targeted THEN {1, 2} ELSE {1})
    /\ mz_mean = <<>>
    /\ roi_index = <<>>
    /\ n_missing = <<>>
    /\ max_intensity = <<>>
    /\ length = <<>>
    /\ index = 0
    /\ temp_roi_dict = <<>>
    /\ roi = <<>>
    /\ k_scan = start
    /\ rt = <<>>
    /\ pc = "init"
    /\ err = "none"
    /\ msexp = <<>>
    /\ match = NoMatch

\* faulty variant: the policy name is not checked
init_raises_rank_only(ndim, policy) ==
    IF ndim # 1 THEN "ValueError" ELSE "none"

\* ---- _RoiProcessor.__init__: the checks of lines 989-995
init_raises(ndim, policy) ==
    IF ndim # 1 THEN "ValueError"
    ELSE IF policy \notin {"closest", "reduce"} THEN "ValueError"
    ELSE "none"

\* lines 1009-1016
ProcessorInit(mz_seed) ==
    /\ mz_mean' = mz_seed
    /\ roi_index' = [i \in 1..Len(mz_seed) |-> i - 1]
    /\ n_missing' = [i \in 1..Len(mz_seed) |-> 0]
    /\ max_intensity' = [i \in 1..Len(mz_seed) |-> RatInt(0)]
    /\ length' = [i \in 1..Len(mz_seed) |-> 0]
    /\ index' = 0
    /\ temp_roi_dict' = [x \in 0..(Len(mz_seed) - 1) |-> make_empty_temp_roi]
    /\ roi' = <<>>

\* ---- make_roi up to the loop: the seed, rt and the processor
Construct ==
    /\ pc = "init"
    /\ \E mz_seed \in (IF targeted THEN {targeted_mz}
                       ELSE {sp.mz : sp \in Spectra}) :
          IF init_raises(mz_seed_ndim, multiple_match) # "none"
          THEN /\ pc' = "error"
               /\ err' = init_raises(mz_seed_ndim, multiple_match)
               /\ UNCHANGED procvars
          ELSE /\ ProcessorInit(mz_seed)
               /\ pc' = "add"
               /\ err' = err
    /\ rt' = [i \in 1..(end - start) |-> 0]
    /\ UNCHANGED <<cfgvars, k_scan, msexp, match>>

\* ---- _RoiProcessor.add(mz, sp, targeted), after line 1326 of the loop
AddRaises(mz) ==
    IF Len(mz_mean) = 0 /\ Len(mz) > 0 THEN "IndexError"
    ELSE IF Len(roi_index) = 0 /\ ~targeted THEN "ValueError"
    ELSE "none"

add(m) ==
    LET dict1 == add_temp_roi(temp_roi_dict, roi_index, m, index)
        mean1 == store_updated_mean(mz_mean, length, m, targeted)
        len1 == add_length(length, m)
        nm1 == add_n_missing(n_missing, m)
        mi1 == add_max_intensity(max_intensity, m)
    IN /\ match' = m
       /\ index' = index + 1
       /\ roi' = roi
       /\ IF targeted
          THEN /\ mz_mean' = mean1
               /\ roi_index' = roi_index
               /\ n_missing' = nm1
               /\ length' = len1
               /\ max_intensity' = mi1
               /\ temp_roi_dict' = dict1
          ELSE \* extend(mz_no_match, sp_no_match)
               LET new_indices == extend_new_indices(roi_index, m.mz_no_match)
                   mz_mean_tmp == mean1 \o m.mz_no_match
                   roi_index_tmp == roi_index \o new_indices
                   n_missing_tmp == nm1 \o extend_n_missing(m.mz_no_match)
                   length_tmp == len1 \o extend_length(m.mz_no_match)
                   max_int_tmp == mi1 \o extend_max_intensity(m.mz_no_match,
                                                              m.sp_no_match)
               IN \E sorted_index \in
                        ArgSorts(mz_mean_tmp, 1..Len(mz_mean_tmp)) :
                     /\ mz_mean' = Take(mz_mean_tmp, sorted_index)
                     /\ roi_index' = Take(roi_index_tmp, sorted_index)
                     /\ n_missing' = Take(n_missing_tmp, sorted_index)
                     /\ length' = Take(length_tmp, sorted_index)
                     /\ max_intensity' = Take(max_int_tmp, sorted_index)
                     /\ temp_roi_dict' =
                            extend_temp_roi(dict1, new_indices, m.mz_no_match,
                                            m.sp_no_match, index)

Add ==
    /\ pc = "add"
    /\ k_scan < end
    /\ \E sp \in Spectra :
          /\ GivenMz + Len(sp.mz) <= MaxRunPeaks
          \* the seed of an untargeted run is the m/z of the first spectrum
          /\ (~targeted /\ k_scan = start) => sp.mz = mz_mean
          /\ msexp' = Append(msexp, sp)
          /\ rt' = [rt EXCEPT ![k_scan - start + 1] = getRT(k_scan)]
          /\ IF AddRaises(sp.mz) # "none"
             THEN /\ pc' = "error"
                  /\ err' = AddRaises(sp.mz)
                  /\ UNCHANGED <<procvars, match>>
             ELSE /\ \E m \in {match_mz(mz_mean, sp.mz, sp.sp, tolerance,
                                          multiple_match)} : add(m)
                  /\ pc' = "append"
                  /\ err' = err
    /\ UNCHANGED <<cfgvars, k_scan>>

\* ---- _RoiProcessor.append_to_roi(rt, targeted)
append_to_roi(tg) ==
    LET done == is_completed(n_missing, max_missing)
        valid == is_valid_roi(length, max_intensity, min_length, min_intensity)
        completed_index == Where(done)
        popped == {roi_index[i] : i \in Range(completed_index)}
        dict1 == [x \in (DOMAIN temp_roi_dict) \ popped |-> temp_roi_dict[x]]
    IN /\ roi' = roi_append(roi, finished_roi(completed_index, roi_index,
                                                valid, temp_roi_dict, rt))
       /\ IF tg
          THEN LET ids1 == renumber_completed(roi_index, done)
               IN /\ n_missing' = reset_completed(n_missing, done, 0)
                  /\ length' = reset_completed(length, done, 0)
                  /\ max_intensity' =
                        reset_completed(max_intensity, done, RatInt(0))
                  /\ roi_index' = ids1
                  /\ mz_mean' = mz_mean
                  /\ temp_roi_dict' =
                        [x \in (DOMAIN dict1) \cup
                               {ids1[i] : i \in Range(completed_index)} |->
                            IF x \in {ids1[i] : i \in Range(completed_index)}
                            THEN make_empty_temp_roi ELSE dict1[x]]
          ELSE /\ mz_mean' = remove_completed(mz_mean, done)
               /\ n_missing' = remove_completed(n_missing, done)
               /\ length' = remove_completed(length, done)
               /\ roi_index' = remove_completed(roi_index, done)
               /\ max_intensity' = remove_completed(max_intensity, done)
               /\ temp_roi_dict' = dict1

\* the second half of the loop body: append_to_roi, then the assertion
AppendToRoi ==
    /\ pc = "append"
    /\ IF targeted /\ Len(roi_index) = 0
       THEN /\ pc' = "error"
            /\ err' = "ValueError"
            /\ UNCHANGED <<procvars, k_scan>>
       ELSE /\ append_to_roi(targeted)
            /\ index' = index
            /\ IF IsSorted(mz_mean')
               THEN /\ pc' = "add"
                    /\ err' = err
                    /\ k_scan' = k_scan + 1
               ELSE /\ pc' = "error"
                    /\ err' = "AssertionError"
                    /\ k_scan' = k_scan
    /\ UNCHANGED <<cfgvars, rt, msexp, match>>

\* ---- after the loop: flag_as_completed, append_to_roi(rt), return
FlagAsCompleted ==
    /\ pc = "add"
    /\ k_scan = end
    /\ n_missing' = flag_n_missing(n_missing, max_missing)
    /\ pc' = "flush"
    /\ UNCHANGED <<mz_mean, roi_index, max_intensity, length, index,
                   temp_roi_dict, roi, cfgvars, k_scan, rt, err, msexp, match>>

Flush ==
    /\ pc = "flush"
    /\ append_to_roi(FALSE)
    /\ index' = index
    /\ pc' = "done"
    /\ UNCHANGED <<cfgvars, k_scan, rt, err, msexp, match>>

Next == Construct \/ Add \/ AppendToRoi \/ FlagAsCompleted \/ Flush

Spec == Init /\ [][Next]_vars

\* ======================================================================
\* The claims.  The record match holds the last call of _match_mz; the
\* operators below read a call off that record.
\* ======================================================================
AfterAdd == pc = "append"

Peaks == 1..Len(match.mz2)

\* |mz1[closest_index[i]] - mz2[i]|, the distance of peak i to its trace
Dist(i) == RAbs(RSub(At(match.mz1, match.closest_index[i]), match.mz2[i]))

InRange(i) == RLeq(Dist(i), tolerance)

\* the peaks in range of trace k (k is an index into mz_mean)
Contenders(k) == {i \in Peaks : InRange(i) /\ match.closest_index[i] = k}

Contended == {k \in 0..(Len(match.mz1) - 1) : Cardinality(Contenders(k)) >= 2}

\* the contender nearest to trace k, the first in m/z order on a tie
Winner(k) ==
    CHOOSE i \in Contenders(k) :
        \A j \in Contenders(k) :
            RLt(Dist(i), Dist(j)) \/ (Dist(i) = Dist(j) /\ i <= j)

\* the rows of the matched output that belong to trace k
Rows(k) == {j \in 1..Len(match.match_index) : match.match_index[j] = k}

\* peak i is returned in the unmatched output
Unmatched(i) == match.no_match_mask[i]

\* the samples of a roi that are present, as offsets into its arrays
Present(r) == {o \in 1..Len(r.spint) : r.spint[o] # NaN}

\* C1: after add the array of the mean m/z of the active traces is
\* non-decreasing and the sortedness assertion of the driver never fails.
C1_SortedAfterAdd ==
    /\ AfterAdd => IsSorted(mz_mean)
    /\ err # "AssertionError"

\* C2 (as claimed): under closest, a contender that is not the nearest one is
\* dropped, it is neither matched nor returned as unmatched.
C2_LosersDropped ==
    (AfterAdd /\ multiple_match = "closest") =>
        \A k \in Contended : \A i \in Contenders(k) \ {Winner(k)} :
            ~Unmatched(i)

\* C2 (amended): under closest, a trace with several peaks in range receives
\* exactly one match, the m/z and intensity of its nearest contender (the
\* first on a tie), and no other contender is matched to any trace: every
\* matched row is the single row of its trace.
C2_ClosestWins ==
    (AfterAdd /\ multiple_match = "closest") =>
        /\ \A k \in Contended :
              /\ Cardinality(Rows(k)) = 1
              /\ \A j \in Rows(k) :
                    /\ match.mz_match[j] = match.mz2[Winner(k)]
                    /\ match.sp_match[j] = match.sp2[Winner(k)]
        /\ \A j \in 1..Len(match.match_index) :
              Rows(match.match_index[j]) = {j}

\* a trace had two contenders at different distances, the nearer one second
C2_Witness ==
    /\ AfterAdd
    /\ multiple_match = "closest"
    /\ \E k \in Contended : \E i \in Contenders(k) :
          i < Winner(k) /\ RLt(Dist(Winner(k)), Dist(i))

\* C3: every roi of the output has at least min_length samples that are
\* present and its largest intensity is at least min_intensity.
C3_ValidRoi ==
    \A n \in 1..Len(roi) :
        /\ Cardinality(Present(roi[n])) >= min_length
        /\ \E o \in Present(roi[n]) : RLeq(min_intensity, roi[n].spint[o])

\* a run returned a roi closed in the loop and a roi closed by the flush
C3_Witness ==
    /\ pc = "done"
    /\ Len(roi) >= 2
    /\ \E n \in 1..Len(roi) : roi[n].first_scan + Len(roi[n].spint) < index

\* C4: the driver runs to completion, it never stops before the end of the
\* range (here: an untargeted run that has added its first scan never ends
\* in an exception).
C4_RunsToCompletion == (~targeted /\ index > 0) => pc # "error"

\* C5: in targeted mode the number of active traces is the length of the
\* target list before and after add and append_to_roi of every scan.
C5_TargetedCardinality ==
    (/\ targeted
     /\ init_raises(mz_seed_ndim, multiple_match) = "none"
     /\ pc \in {"add", "append", "error", "flush"}) =>
        /\ Len(mz_mean) = Len(targeted_mz)
        /\ Len(roi_index) = Len(targeted_mz)
        /\ Len(n_missing) = Len(targeted_mz)
        /\ Len(length) = Len(targeted_mz)
        /\ Len(max_intensity) = Len(targeted_mz)
        /\ Cardinality(DOMAIN temp_roi_dict) = Len(targeted_mz)

\* a targeted run closed a slot in the loop and went on
C5_Witness ==
    /\ targeted
    /\ pc = "add"
    /\ k_scan < end
    /\ Len(targeted_mz) = 2
    /\ \E i \in 1..Len(roi_index) : roi_index[i] >= Len(targeted_mz)
    /\ Len(roi) > 0

\* the rows append_to_roi completes, and what the samples of a TempRoi say
Completed == {i \in 1..Len(n_missing) : n_missing[i] > max_missing}

SamplesValid(t) ==
    /\ Len(t.scan) >= min_length
    /\ \E j \in 1..Len(t.sp) : RLeq(min_intensity, t.sp[j])

\* C6: a trace closed by append_to_roi is emitted as exactly one roi if it
\* has at least min_length samples and the largest intensity of its samples
\* is at least min_intensity, and is discarded otherwise.
C6_Step ==
    (pc \in {"append", "flush"}) =>
        Len(roi') - Len(roi) =
            Cardinality({i \in Completed :
                            SamplesValid(temp_roi_dict[roi_index[i]])})

C6_EmissionRule == [][C6_Step]_vars

\* C7: the unmatched output of _match_mz is exactly the peaks no match
\* consumed: the peaks out of range and, under closest, the contenders that
\* are not the nearest one.
Consumed(i) ==
    /\ InRange(i)
    /\ (multiple_match = "reduce" \/ i = Winner(match.closest_index[i]))

C7_UnmatchedIsResidual ==
    AfterAdd =>
        /\ \A i \in Peaks : Unmatched(i) <=> ~Consumed(i)
        /\ match.mz_no_match =
              Take(match.mz2, SortedSeq({i \in Peaks : ~Consumed(i)}))

\* C8: under reduce, a trace with several peaks in range receives exactly one
\* match, the mean of their m/z and the sum of their intensities, and none
\* of them is returned as unmatched.
C8_ReduceMerges ==
    (AfterAdd /\ multiple_match = "reduce") =>
        \A k \in Contended :
            /\ Cardinality(Rows(k)) = 1
            /\ \A j \in Rows(k) :
                  /\ match.mz_match[j] =
                        RMean(Take(match.mz2, SortedSeq(Contenders(k))))
                  /\ match.sp_match[j] =
                        RSum(Take(match.sp2, SortedSeq(Contenders(k))))
            /\ \A i \in Contenders(k) : ~Unmatched(i)

\* two peaks of different intensity were merged into a trace
C8_Witness ==
    /\ AfterAdd
    /\ multiple_match = "reduce"
    /\ \E k \in Contended : \E i, j \in Contenders(k) :
          match.sp2[i] # match.sp2[j]

\* C9: a trace unmatched for 1..max_missing scans and then matched stays
\* open, the sample goes to the same TempRoi, and the roi made of a TempRoi
\* spans first..last scan with NaN at exactly the scans without a sample.
C9_Step ==
    /\ (pc = "add" /\ pc' = "append") =>
          \A i \in 1..Len(roi_index) :
              (n_missing[i] \in 1..max_missing
                  /\ (i - 1) \in Range(match'.match_index)) =>
                  /\ roi_index[i] \in DOMAIN temp_roi_dict'
                  /\ temp_roi_dict'[roi_index[i]].scan =
                        Append(temp_roi_dict[roi_index[i]].scan, index)
                  /\ \E n \in 1..Len(roi_index') :
                        roi_index'[n] = roi_index[i] /\ n_missing'[n] = 0
    /\ (pc = "append") =>
          \A i \in 1..Len(roi_index) :
              (n_missing[i] <= max_missing) =>
                  /\ roi_index[i] \in Range(roi_index')
                  /\ roi_index[i] \in DOMAIN temp_roi_dict'
                  /\ temp_roi_dict'[roi_index[i]] = temp_roi_dict[roi_index[i]]
    /\ (pc \in {"append", "flush"}) =>
          \A n \in (Len(roi) + 1)..Len(roi') :
              \E i \in Completed :
                  LET t == temp_roi_dict[roi_index[i]]
                  IN /\ Len(t.scan) > 0
                     /\ roi'[n].first_scan = t.scan[1]
                     /\ Len(roi'[n].spint) = t.scan[Len(t.scan)] - t.scan[1] + 1
                     /\ Len(roi'[n].mz) = Len(roi'[n].spint)
                     /\ \A o \in 1..Len(roi'[n].spint) :
                           /\ (roi'[n].spint[o] # NaN) <=>
                                 (t.scan[1] + o - 1) \in Range(t.scan)
                           /\ (roi'[n].mz[o] # NaN) <=>
                                 (t.scan[1] + o - 1) \in Range(t.scan)

C9_GapTolerance == [][C9_Step]_vars

\* a roi of the output has an absent sample between two present ones
C9_Witness ==
    \E n \in 1..Len(roi) : \E o \in 1..Len(roi[n].spint) :
        /\ roi[n].spint[o] = NaN
        /\ roi[n].spint[o - 1] # NaN
        /\ roi[n].spint[o + 1] # NaN

\* C10: once the trace at a mass has been closed, a peak at that mass in a
\* later scan of an untargeted run starts a new trace under an identity that
\* was not active, holding that one sample at the current scan index.
SeenBefore(p) == \E e \in 1..Len(msexp) : p \in Range(msexp[e].mz)

NoTraceNear(p) ==
    \A i \in 1..Len(mz_mean) : ~RLeq(RAbs(RSub(mz_mean[i], p)), tolerance)

C10_Step ==
    (pc = "add" /\ k_scan < end /\ ~targeted /\ index > 0) =>
        LET sp == msexp'[Len(msexp')]
        IN \A j \in 1..Len(sp.mz) :
              (SeenBefore(sp.mz[j]) /\ NoTraceNear(sp.mz[j])) =>
                  /\ pc' = "append"
                  /\ \E x \in (DOMAIN temp_roi_dict') \ Range(roi_index) :
                        temp_roi_dict'[x] =
                            [mz |-> <<sp.mz[j]>>, sp |-> <<sp.sp[j]>>,
                             scan |-> <<index>>]

C10_SplitStartsNewTrace == [][C10_Step]_vars

\* the seed masses of the run: the target list, or the m/z of the first scan
Seeds == IF targeted THEN targeted_mz ELSE msexp[1].mz

Separated(a) ==
    \A i, j \in 1..Len(a) :
        (i # j) => ~RLeq(RAbs(RSub(a[i], a[j])), tolerance)

\* every scan read so far holds exactly the seed masses, with intensities of
\* at least min_intensity, and the range has at least min_length scans
SeedsOnly ==
    /\ Len(msexp) >= 1
    /\ Len(Seeds) >= 1
    /\ Separated(Seeds)
    /\ min_length <= end - start
    /\ \A e \in 1..Len(msexp) :
          /\ Len(msexp[e].mz) = Len(Seeds)
          /\ Range(msexp[e].mz) = Range(Seeds)
          /\ \A j \in 1..Len(msexp[e].sp) : RLeq(min_intensity, msexp[e].sp[j])

\* the intensity of mass p in the spectrum e
SpOf(e, p) == e.sp[CHOOSE j \in 1..Len(e.mz) : e.mz[j] = p]

\* C11: with seed masses pairwise farther apart than the tolerance and scans
\* that hold exactly those masses, the run returns one roi per seed, spanning
\* all the scans without an absent sample and holding the samples of its mass.
C11_TrackSeparation ==
    SeedsOnly =>
        /\ pc # "error"
        /\ (pc = "done") =>
              /\ Len(roi) = Len(Seeds)
              /\ \A p \in Range(Seeds) :
                    \E n \in 1..Len(roi) :
                        /\ roi[n].first_scan = 0
                        /\ Len(roi[n].spint) = end - start
                        /\ Len(roi[n].mz) = end - start
                        /\ \A o \in 1..(end - start) :
                              /\ roi[n].mz[o] = p
                              /\ roi[n].spint[o] = SpOf(msexp[o], p)

\* C12: a tolerance of zero or less is rejected by the constructor, before
\* any scan is processed.
C12_ToleranceRejected ==
    (RLeq(tolerance, RatInt(0)) /\ pc # "init") =>
        /\ pc = "error"
        /\ msexp = <<>>

\* C13: a seed array that is not one-dimensional and an unknown policy name
\* are rejected by the constructor with no processor state created.
C13_RejectedAtConstruction ==
    ((mz_seed_ndim # 1 \/ multiple_match \notin {"closest", "reduce"})
        /\ pc # "init") =>
        /\ pc = "error"
        /\ err = "ValueError"
        /\ mz_mean = <<>>
        /\ roi_index = <<>>
        /\ n_missing = <<>>
        /\ max_intensity = <<>>
        /\ length = <<>>
        /\ temp_roi_dict = <<>>
        /\ roi = <<>>
        /\ msexp = <<>>

\* a one-dimensional, non-empty seed was rejected for its policy name
C13_Witness ==
    /\ pc = "error"
    /\ multiple_match = "merge"
    /\ mz_seed_ndim = 1
    /\ Len(targeted_mz) > 0

\* C14: the roi list only grows at its end: the rois of a later call of
\* append_to_roi follow those of the earlier calls, and a roi once appended
\* is neither moved nor removed.
C14_Step ==
    /\ Len(roi') >= Len(roi)
    /\ \A n \in 1..Len(roi) : roi'[n] = roi[n]
    /\ (roi' # roi) => pc \in {"append", "flush"}

C14_ClosureOrder == [][C14_Step]_vars

\* the first roi was closed in the loop and has the larger m/z, the second
\* one was closed later
C14_Witness ==
    /\ pc = "done"
    /\ Len(roi) = 2
    /\ roi[1].first_scan + Len(roi[1].spint) < roi[2].first_scan + Len(roi[2].spint)
    /\ RLt(roi[2].mz[1], roi[1].mz[1])

\* the roi r is the dense form of the TempRoi t: the samples at their scan
\* offsets, NaN elsewhere, and the retention times of the scans it spans
DenseOf(r, t) ==
    LET first == t.scan[1]
        size == t.scan[Len(t.scan)] - first + 1
    IN /\ r.first_scan = first
       /\ Len(r.mz) = size
       /\ Len(r.spint) = size
       /\ Len(r.rt) = size
       /\ \A j \in 1..Len(t.scan) :
             /\ r.mz[t.scan[j] - first + 1] = t.mz[j]
             /\ r.spint[t.scan[j] - first + 1] = t.sp[j]
       /\ \A o \in 1..size :
             /\ ((first + o - 1) \notin Range(t.scan)) =>
                   (r.mz[o] = NaN /\ r.spint[o] = NaN)
             /\ r.rt[o] = rt[first + o]
             /\ r.rt[o] = getRT(start + first + o - 1)

\* C15: the roi built from a closed trace has m/z, intensity and retention
\* time arrays of length last - first + 1, the samples at their scan offsets,
\* NaN at every other offset and the retention times of the scans first..last.
C15_Step ==
    (pc \in {"append", "flush"}) =>
        \A n \in (Len(roi) + 1)..Len(roi') :
            \E i \in Completed :
                /\ Len(temp_roi_dict[roi_index[i]].scan) > 0
                /\ DenseOf(roi'[n], temp_roi_dict[roi_index[i]])

C15_Densification == [][C15_Step]_vars

\* a roi with an absent sample between two samples of different m/z
C15_Witness ==
    \E n \in 1..Len(roi) : \E o \in 2..(Len(roi[n].mz) - 1) :
        /\ roi[n].mz[o] = NaN
        /\ roi[n].mz[o - 1] # NaN
        /\ roi[n].mz[o + 1] # NaN
        /\ roi[n].mz[o - 1] # roi[n].mz[o + 1]

\* C16: after the loop flag_as_completed and one append_to_roi retire every
\* trace still open, whatever its n_missing was: each one whose samples meet
\* the thresholds is in the output and no active trace remains, in both modes.
C16_Step ==
    /\ (pc = "add" /\ pc' = "flush") =>
          \A i \in 1..Len(n_missing') : n_missing'[i] > max_missing
    /\ (pc = "flush") =>
          /\ pc' = "done"
          /\ mz_mean' = <<>>
          /\ roi_index' = <<>>
          /\ n_missing' = <<>>
          /\ length' = <<>>
          /\ max_intensity' = <<>>
          /\ temp_roi_dict' = <<>>
          /\ Len(roi') - Len(roi) =
                Cardinality({i \in 1..Len(roi_index) :
                                SamplesValid(temp_roi_dict[roi_index[i]])})

C16_FinalFlush == [][C16_Step]_vars

\* peak i is assigned to a trace: it is the only peak in range of the trace,
\* or under closest the nearest of the contenders
Assigned(i) ==
    /\ InRange(i)
    /\ \/ Contenders(match.closest_index[i]) = {i}
       \/ (multiple_match = "closest" /\ i = Winner(match.closest_index[i]))

\* C17: a peak that _match_mz assigns to a trace is not returned as unmatched
\* as well, so that an untargeted add does not spawn a trace from it.
C17_NoPeakUsedTwice ==
    AfterAdd =>
        \A i \in Peaks :
            Assigned(i) =>
                /\ ~Unmatched(i)
                /\ ~targeted =>
                      Cardinality({x \in DOMAIN temp_roi_dict :
                          /\ Len(temp_roi_dict[x].scan) > 0
                          /\ LET t == temp_roi_dict[x]
                                 n == Len(t.scan)
                             IN /\ t.scan[n] = index - 1
                                /\ t.mz[n] = match.mz2[i]
                                /\ t.sp[n] = match.sp2[i]}) = 1

\* no trace is nearer to peak i than the trace closest_index gives it
Nearest(i) ==
    \A k \in 0..(Len(match.mz1) - 1) :
        RLeq(Dist(i), RAbs(RSub(At(match.mz1, k), match.mz2[i])))

\* C18: a peak is considered for its nearest trace only (mz1 sorted, as the
\* matcher requires), is matched only if its distance is <= tolerance, and
\* is returned as unmatched if it is farther; a trace with exactly one peak
\* in range receives that peak unchanged, a trace with none receives no
\* match, and no trace receives more than one match.
C18_AssignmentRule ==
    AfterAdd =>
        /\ IsSorted(match.mz1) => \A i \in Peaks : Nearest(i)
        /\ \A i \in Peaks : ~InRange(i) => Unmatched(i)
        /\ \A k \in 0..(Len(match.mz1) - 1) :
              /\ Cardinality(Rows(k)) <= 1
              /\ (Contenders(k) = {}) => (Rows(k) = {})
              /\ \A i \in Peaks :
                    (Contenders(k) = {i}) =>
                        /\ Cardinality(Rows(k)) = 1
                        /\ \A j \in Rows(k) :
                              /\ match.mz_match[j] = match.mz2[i]
                              /\ match.sp_match[j] = match.sp2[i]

\* with two traces, a peak at exactly the tolerance from its trace is its
\* only peak in range and another peak of the scan is out of range
C18_Witness ==
    /\ AfterAdd
    /\ Len(match.mz1) >= 2
    /\ RLt(RatInt(0), tolerance)
    /\ \E i, j \in Peaks :
          /\ Dist(i) = tolerance
          /\ Contenders(match.closest_index[i]) = {i}
          /\ ~InRange(j)

\* the contenders of trace k at the smallest distance
TiedNearest(k) ==
    {i \in Contenders(k) : \A j \in Contenders(k) : RLeq(Dist(i), Dist(j))}

\* the smallest element of a non-empty set of integers
MinOf(S) == CHOOSE i \in S : \A j \in S : i <= j

\* C19: under closest, when several contenders of a trace are at the same
\* smallest distance, the first of them in the m/z order of the scan is the
\* one matched.
C19_TieFirstWins ==
    (AfterAdd /\ multiple_match = "closest") =>
        \A k \in Contended :
            (Cardinality(TiedNearest(k)) >= 2) =>
                /\ Rows(k) # {}
                /\ \A j \in Rows(k) :
                      /\ match.mz_match[j] = match.mz2[MinOf(TiedNearest(k))]
                      /\ match.sp_match[j] = match.sp2[MinOf(TiedNearest(k))]

\* two contenders of different intensity at the same distance from a trace
C19_Witness ==
    /\ AfterAdd
    /\ multiple_match = "closest"
    /\ \E k \in Contended : \E i, j \in TiedNearest(k) :
          match.sp2[i] # match.sp2[j]

\* C20: in an untargeted add every unmatched peak becomes one new row with
\* an identity that was not active, a TempRoi of that one sample at the
\* current index, length 1 and n_missing 0; the arrays stay aligned with one
\* another and with the TempRoi table, and sorted by mean m/z.
C20_Step ==
    (pc = "add" /\ pc' = "append" /\ ~targeted) =>
        /\ Len(roi_index') = Len(roi_index) + Len(match'.mz_no_match)
        /\ Len(mz_mean') = Len(roi_index')
        /\ Len(n_missing') = Len(roi_index')
        /\ Len(length') = Len(roi_index')
        /\ Len(max_intensity') = Len(roi_index')
        /\ IsSorted(mz_mean')
        /\ \A n1, n2 \in 1..Len(roi_index') :
              (roi_index'[n1] = roi_index'[n2]) => (n1 = n2)
        /\ DOMAIN temp_roi_dict' = Range(roi_index')
        /\ \A n \in 1..Len(roi_index') :
              LET t == temp_roi_dict'[roi_index'[n]]
              IN /\ length'[n] = Len(t.scan)
                 /\ (Len(t.scan) > 0) => (mz_mean'[n] = RMean(t.mz))
                 /\ (n_missing'[n] = 0) <=>
                       (Len(t.scan) > 0 /\ t.scan[Len(t.scan)] = index)
        /\ \A u \in 1..Len(match'.mz_no_match) :
              Cardinality({n \in 1..Len(roi_index') :
                  /\ roi_index'[n] \notin Range(roi_index)
                  /\ temp_roi_dict'[roi_index'[n]] =
                        [mz |-> <<match'.mz_no_match[u]>>,
                         sp |-> <<match'.sp_no_match[u]>>,
                         scan |-> <<index>>]
                  /\ mz_mean'[n] = match'.mz_no_match[u]
                  /\ length'[n] = 1
                  /\ n_missing'[n] = 0}) = 1

C20_UntargetedSpawn == [][C20_Step]_vars

\* after the first scan a peak was matched and an unmatched one was put
\* below the last trace
C20_Witness ==
    /\ AfterAdd
    /\ ~targeted
    /\ index >= 2
    /\ Len(match.mz_match) >= 1
    /\ \E u \in 1..Len(match.mz_no_match) :
          RLt(match.mz_no_match[u], match.mz1[Len(match.mz1)])

\* C21: between the operations the identities of the active traces are
\* pairwise distinct and the TempRoi table has exactly one entry for each of
\* them, and no other entry.
C21_IdentityInvariant ==
    /\ \A i, j \in 1..Len(roi_index) :
          (roi_index[i] = roi_index[j]) => (i = j)
    /\ DOMAIN temp_roi_dict = Range(roi_index)

\* an untargeted run has closed a trace with output and holds a spawned
\* trace below an older one
C21_Witness ==
    /\ ~targeted
    /\ Len(roi) >= 1
    /\ \E i \in 1..(Len(roi_index) - 1) : roi_index[i] > roi_index[i + 1]

\* C22: in every roi of the output the first and the last sample are present
\* and no run of consecutive absent samples is longer than max_missing.
C22_BoundedGaps ==
    \A n \in 1..Len(roi) :
        /\ Len(roi[n].spint) >= 1
        /\ roi[n].spint[1] # NaN
        /\ roi[n].spint[Len(roi[n].spint)] # NaN
        /\ \A a, b \in 1..Len(roi[n].spint) :
              (a <= b /\ \A o \in a..b : roi[n].spint[o] = NaN) =>
                  (b - a + 1 <= max_missing)

\* a targeted run has emitted a roi with a gap of max_missing scans
C22_Witness ==
    /\ targeted
    /\ max_missing >= 1
    /\ \E n \in 1..Len(roi) : \E a \in 2..Len(roi[n].spint) :
          /\ roi[n].spint[a - 1] # NaN
          /\ \A o \in a..(a + max_missing - 1) : roi[n].spint[o] = NaN
          /\ roi[n].spint[a + max_missing] # NaN

\* C23: append_to_roi called with targeted leaves a completed row in place
\* with its mean m/z, resets its n_missing, length and max_intensity to 0,
\* gives it an identity no row had and an empty TempRoi under it, and drops
\* the old TempRoi; the other rows are unchanged.  A later match goes to the
\* TempRoi of the current identity and the roi list is not touched by add.
C23_Step ==
    /\ (pc = "append" /\ targeted /\ Len(roi_index) > 0) =>
          /\ Len(roi_index') = Len(roi_index)
          /\ mz_mean' = mz_mean
          /\ \A i \in Completed :
                /\ n_missing'[i] = 0
                /\ length'[i] = 0
                /\ max_intensity'[i] = RatInt(0)
                /\ roi_index'[i] \notin Range(roi_index)
                /\ \A j \in 1..Len(roi_index') :
                      (roi_index'[j] = roi_index'[i]) => (j = i)
                /\ roi_index'[i] \in DOMAIN temp_roi_dict'
                /\ temp_roi_dict'[roi_index'[i]] = make_empty_temp_roi
                /\ roi_index[i] \notin DOMAIN temp_roi_dict'
          /\ \A i \in (1..Len(roi_index)) \ Completed :
                /\ n_missing'[i] = n_missing[i]
                /\ length'[i] = length[i]
                /\ max_intensity'[i] = max_intensity[i]
                /\ roi_index'[i] = roi_index[i]
                /\ temp_roi_dict'[roi_index[i]] = temp_roi_dict[roi_index[i]]
    /\ (pc = "add" /\ pc' = "append" /\ targeted) =>
          /\ roi' = roi
          /\ roi_index' = roi_index
          /\ \A i \in 1..Len(roi_index) :
                temp_roi_dict'[roi_index[i]].scan =
                    (IF (i - 1) \in Range(match'.match_index)
                     THEN Append(temp_roi_dict[roi_index[i]].scan, index)
                     ELSE temp_roi_dict[roi_index[i]].scan)

C23_TargetedReset == [][C23_Step]_vars

\* a slot that was closed with output and reset holds a sample again
C23_Witness ==
    /\ targeted
    /\ Len(roi) >= 1
    /\ \E i \in 1..Len(roi_index) :
          /\ roi_index[i] >= Len(targeted_mz)
          /\ length[i] >= 1
          /\ temp_roi_dict[roi_index[i]].scan # <<>>

\* C24: for every start of the scan range, first_scan of an emitted roi is
\* the raw index of the scan (the argument of getSpectrum) that supplied
\* the roi's first sample, i.e. the scan whose retention time opens roi.rt.
C24_FirstScanIsRawIndex ==
    \A n \in 1..Len(roi) :
        /\ Len(roi[n].rt) >= 1
        /\ roi[n].rt[1] = getRT(roi[n].first_scan)

\* C25: add with targeted false sets the mean of a matched trace to
\* (mean * length + matched m/z) / (length + 1) and keeps the mean of an
\* unmatched trace; afterwards the mean of every active trace with a sample
\* is the unweighted mean of the m/z samples of its TempRoi.
RowOf(ids, x) == CHOOSE j \in 1..Len(ids) : ids[j] = x

C25_Step ==
    (pc = "add" /\ pc' = "append" /\ ~targeted) =>
        /\ \A i \in 1..Len(roi_index) :
              /\ roi_index[i] \in Range(roi_index')
              /\ mz_mean'[RowOf(roi_index', roi_index[i])] =
                    (IF (i - 1) \in Range(match'.match_index)
                     THEN RDivInt(RAdd(RMulInt(mz_mean[i], length[i]),
                                       match'.mz_match[MatchPos(match', i - 1)]),
                                  length[i] + 1)
                     ELSE mz_mean[i])
        /\ \A j \in 1..Len(roi_index') :
              (temp_roi_dict'[roi_index'[j]].mz # <<>>) =>
                  (mz_mean'[j] = RMean(temp_roi_dict'[roi_index'[j]].mz))

C25_UntargetedMeanUpdate == [][C25_Step]_vars

\* a trace of two samples with different m/z, its mean between them
C25_Witness ==
    /\ ~targeted
    /\ pc = "append"
    /\ \E i \in 1..Len(roi_index) :
          /\ length[i] >= 2
          /\ mz_mean[i][2] # 1
          /\ (i - 1) \in Range(match.match_index)

\* C26: in a targeted run the means are the target masses given by the
\* caller at every point of the scan loop and up to the final flush:
\* neither add nor append_to_roi (closure and reset) changes them.
C26_TargetedFrame ==
    (targeted /\ pc \in {"add", "append", "flush"}) => (mz_mean = targeted_mz)

\* a reset slot holds a sample whose m/z is not the target mass
C26_Witness ==
    /\ targeted
    /\ pc = "add"
    /\ Len(roi) >= 1
    /\ \E i \in 1..Len(roi_index) :
          /\ roi_index[i] >= Len(targeted_mz)
          /\ \E v \in Range(temp_roi_dict[roi_index[i]].mz) : v # mz_mean[i]

\* C27: during the scan loop, for every active trace, length is the number
\* of samples of its TempRoi, the scans of the samples are strictly
\* increasing and lie among the scans processed, and n_missing is the
\* number of scans processed since the last sample; for a trace without
\* a sample it is 0 at creation or reset and grows by one with every add.
C27_Step ==
    (pc' \in {"add", "append"}) =>
        \A j \in 1..Len(roi_index') :
            /\ roi_index'[j] \in DOMAIN temp_roi_dict'
            /\ \E t \in {temp_roi_dict'[roi_index'[j]]} :
                  /\ length'[j] = Len(t.scan)
                  /\ \A a \in 1..Len(t.scan) : t.scan[a] \in 0..(index' - 1)
                  /\ \A a \in 1..(Len(t.scan) - 1) : t.scan[a] < t.scan[a + 1]
                  /\ (t.scan # <<>>) =>
                        (n_missing'[j] = index' - 1 - t.scan[Len(t.scan)])
                  /\ (t.scan = <<>> /\ roi_index'[j] \notin Range(roi_index)) =>
                        (n_missing'[j] = 0)
                  /\ (t.scan = <<>> /\ roi_index'[j] \in Range(roi_index)) =>
                        (n_missing'[j] =
                            n_missing[RowOf(roi_index, roi_index'[j])]
                            + (IF pc = "add" THEN 1 ELSE 0))

SurvivorRank(i) == Cardinality({k \in 1..i : k \notin Completed})

C28_Step ==
    (pc \in {"append", "flush"}) =>
        /\ \A j \in 1..Len(n_missing') : n_missing'[j] <= max_missing
        /\ (~targeted \/ pc = "flush") =>
              /\ Len(roi_index') = SurvivorRank(Len(roi_index))
              /\ Len(mz_mean') = Len(roi_index')
              /\ Len(n_missing') = Len(roi_index')
              /\ Len(length') = Len(roi_index')
              /\ Len(max_intensity') = Len(roi_index')
              /\ \A i \in (1..Len(roi_index)) \ Completed :
                    /\ mz_mean'[SurvivorRank(i)] = mz_mean[i]
                    /\ n_missing'[SurvivorRank(i)] = n_missing[i]
                    /\ length'[SurvivorRank(i)] = length[i]
                    /\ max_intensity'[SurvivorRank(i)] = max_intensity[i]
                    /\ roi_index'[SurvivorRank(i)] = roi_index[i]

C28_ClosureIsPrompt == [][C28_Step]_vars

\* an untargeted run between two scans: a trace was closed with output,
\* two survive, one of them at the limit of missing scans
C28_Witness ==
    /\ ~targeted
    /\ pc = "add"
    /\ max_missing >= 1
    /\ Len(roi) >= 1
    /\ Len(roi_index) >= 2
    /\ \E i \in 1..Len(roi_index) : n_missing[i] = max_missing
    /\ \E i \in 1..Len(roi_index) : n_missing[i] = 0

====
